---- MODULE Spec2Model ----
(***************************************************************************)
(* Model of bin/build_wasm.ts, the WebAssembly build orchestrator of       *)
(* llhttp: module-level configuration and platform resolution, the         *)
(* switch over process.argv[2], and the four paths it dispatches to.       *)
(* One invocation is one process p; the file system is shared.             *)
(***************************************************************************)
EXTENDS Integers, Sequences, FiniteSets, TLC

VARIABLES
    procs,       \* the invocations that exist in this run
    arg,         \* process.argv[2] of each invocation
    envPlatform, \* process.env.WASM_PLATFORM of each invocation
    host,        \* process.platform of each invocation
    ids,         \* uid / gid / egid of each invocation's process
    config,      \* the BuildConfig object of each invocation
    pc,          \* position of each invocation in the script
    exitCode,    \* exit status once pc = "done"
    childExit,   \* exit status of the last subprocess execSync ran
    log,         \* external operations performed, in order
    dockerCmd,   \* the docker run command runDockerBuild executed
    clangCmd,    \* the clang command buildWasm executed
    copyIdx,     \* next copyFileSync of copyAssets
    dockerUp,    \* whether "docker info" succeeds
    mkdirFault,  \* what mkdirSync raises when it cannot create the directory
    dirs,        \* which directories exist
    srcFiles,    \* lib/llhttp/*: which companion sources exist
    outFiles,    \* files of build/wasm (binary and companions)
    descriptor   \* build/wasm/package.json

vars == <<procs, arg, envPlatform, host, ids, config, pc, exitCode, childExit,
          log, dockerCmd, clangCmd, copyIdx, dockerUp, mkdirFault, dirs,
          srcFiles, outFiles, descriptor>>

procVars == <<procs, arg, envPlatform, host, ids>>
envVars == <<dockerUp, mkdirFault, srcFiles>>

----------------------------------------------------------------------------
(* Bounds *)

\* subprocess exit statuses range over 0..MaxExitCode
MaxExitCode == 2
\* at most this many companion source files are missing from lib/llhttp
MaxMissing == 1

ExitCodes == 0..MaxExitCode

----------------------------------------------------------------------------
(* JavaScript values *)

\* the value of an absent argv entry or environment variable
Undefined == "<undefined>"

Truthy(v) == v # Undefined /\ v # ""

\* a ?? b
NullishCoalesce(a, b) == IF a = Undefined THEN b ELSE a

\* String.prototype.trim on the outputs "docker info -f" can print
Trim(s) ==
    CASE s = "linux/amd64\n" -> "linux/amd64"
      [] s = "linux/arm64\n" -> "linux/arm64"
      [] s = "\n" -> ""
      [] OTHER -> s

\* what the container runtime prints for {{.OSType}}/{{.Architecture}}
DockerInfoOutput == "linux/amd64\n"

\* status of a process that dies of an uncaught exception
UncaughtExitCode == 1

----------------------------------------------------------------------------
(* Constants of the script *)

OPTIMIZATION_LEVEL == 3
WASM_MEMORY_SIZE == 16 * 1024 * 1024
STACK_SIZE == 2 * 1024 * 1024
GLOBAL_BASE == 4 * 1024 * 1024

\* one word of a command line: a bare flag, or a flag with a numeric value
Flag(n) == [name |-> n, has |-> FALSE, val |-> 0]
FlagV(n, v) == [name |-> n, has |-> TRUE, val |-> v]

\* resolve(__dirname, '../') and the paths joined from it
WasmSrc == "/llhttp"
BuildDir == "/llhttp/build"
WasmOut == "/llhttp/build/wasm"

EmflagsMaxMemoryDrift ==
    <<Flag("-O3"), Flag("-fno-rtti"), Flag("-fno-exceptions"), Flag("-flto"),
      Flag("-Wl,--no-entry"),
      FlagV("-Wl,-z,stack-size=", STACK_SIZE),
      FlagV("-Wl,--initial-memory=", WASM_MEMORY_SIZE),
      FlagV("-Wl,--max-memory=", 2 * WASM_MEMORY_SIZE)>>

\* config.emflags: the array joined with ' '
Emflags ==
    <<Flag("-O3"), Flag("-fno-rtti"), Flag("-fno-exceptions"), Flag("-flto"),
      Flag("-ffast-math"), Flag("-fomit-frame-pointer"),
      Flag("-finline-functions"), Flag("-finline-hint-functions"),
      Flag("-fno-stack-protector"), Flag("-fforce-emit-vtables"),
      FlagV("--param=max-inline-insns-single=", 1000),
      FlagV("--param=max-inline-insns-auto=", 1000),
      FlagV("--param=early-inlining-insns=", 1000),
      FlagV("--param=max-early-inliner-iterations=", 10),
      Flag("-Wl,--no-entry"), Flag("-Wl,-O3"), Flag("-Wl,--lto-O3"),
      FlagV("-Wl,-z,stack-size=", STACK_SIZE),
      FlagV("-Wl,--initial-memory=", WASM_MEMORY_SIZE),
      FlagV("-Wl,--max-memory=", WASM_MEMORY_SIZE)>>

\* the config object literal
MakeConfig(env) ==
    [platform |-> NullishCoalesce(env, ""),
     wasmOut |-> WasmOut,
     wasmSrc |-> WasmSrc,
     emflags |-> Emflags]

\* the template string of buildWasm
ClangCmd(cfg) ==
    <<Flag("clang"), Flag("--sysroot=/usr/share/wasi-sysroot"),
      Flag("-target wasm32-unknown-wasi"), Flag("-Ofast"),
      Flag("-fno-exceptions"), Flag("-fvisibility=hidden"),
      Flag("-mexec-model=reactor"), Flag("-msimd128"), Flag("-mbulk-memory"),
      Flag("-mmultivalue"), Flag("-mnontrapping-fptoint"), Flag("-msign-ext"),
      Flag("-mreference-types"), Flag("-mtail-call")>>
    \o cfg.emflags \o
    <<Flag("-Wl,-error-limit=0"),
      FlagV("-Wl,-O", OPTIMIZATION_LEVEL),
      FlagV("-Wl,--lto-O", OPTIMIZATION_LEVEL),
      Flag("-Wl,--allow-undefined"), Flag("-Wl,--export-dynamic"),
      Flag("-Wl,--export-table"), Flag("-Wl,--export=malloc"),
      Flag("-Wl,--export=free"), Flag("-Wl,--no-entry"),
      Flag("-Wl,--import-memory"),
      FlagV("-Wl,--max-memory=", WASM_MEMORY_SIZE),
      FlagV("-Wl,--global-base=", GLOBAL_BASE),
      Flag("-Wl,--stack-first"),
      Flag("/llhttp/build/c/*.c"), Flag("/llhttp/src/native/*.c"),
      Flag("-I/llhttp/build"), Flag("-o /llhttp/build/wasm/llhttp.wasm")>>

\* the six copyFileSync calls of copyAssets, in order
AssetNames ==
    <<"constants.js", "constants.js.map", "constants.d.ts",
      "utils.js", "utils.js.map", "utils.d.ts">>

AssetSet == {AssetNames[i] : i \in DOMAIN AssetNames}
WasmName == "llhttp.wasm"
OutNames == AssetSet \cup {WasmName}

\* JSON.stringify of an object given as a sequence of <<key, value>> pairs
JSONStringify(obj) ==
    LET Pair(i) == (IF i > 1 THEN <<",">> ELSE <<>>)
                   \o <<obj[i][1], ":", obj[i][2]>>
        Body[i \in 0..Len(obj)] ==
            IF i = 0 THEN <<>> ELSE Body[i - 1] \o Pair(i)
    IN <<"{">> \o Body[Len(obj)] \o <<"}">>

\* const packageJson = JSON.stringify({ type: 'commonjs' }, null, 2)
PackageJson == JSONStringify(<<<<"type", "commonjs">>>>)

----------------------------------------------------------------------------
(* Errors, the file system, subprocesses *)

\* a raised value: an Error object (with or without a 'code' property),
\* null, or a primitive; kind "none" is "nothing was raised"
NoError == [kind |-> "none", hasCode |-> FALSE, code |-> ""]
ErrEEXIST == [kind |-> "object", hasCode |-> TRUE, code |-> "EEXIST"]
ErrEACCES == [kind |-> "object", hasCode |-> TRUE, code |-> "EACCES"]
ErrNoCode == [kind |-> "object", hasCode |-> FALSE, code |-> ""]
ErrNull == [kind |-> "null", hasCode |-> FALSE, code |-> ""]
ErrString == [kind |-> "string", hasCode |-> FALSE, code |-> ""]
Faults == {ErrEEXIST, ErrEACCES, ErrNoCode, ErrNull, ErrString}

\* typeof error === 'object' && error !== null && 'code' in error
isErrorWithCode(error) == error.kind = "object" /\ error.hasCode

\* the condition of the catch block's throw
SetupRethrows(error) == isErrorWithCode(error) /\ error.code # "EEXIST"

MkdirSyncNotRecursive(exists, fault) == IF exists THEN ErrEEXIST ELSE fault

\* mkdirSync(path, { recursive: true }): what it raises. An existing
\* directory is not an error; otherwise the attempt fails with the fault
\* of the environment, if there is one.
MkdirSync(exists, fault) == IF exists THEN NoError ELSE fault

\* the directories a recursive mkdir of path leaves in existence
MkdirCreates(path) == IF path = WasmOut THEN {BuildDir, WasmOut} ELSE {path}

ExecSyncNeverThrows(status) == FALSE

\* execSync throws when the child's exit status is not 0
ExecSyncThrows(status) == status # 0

CopyMissingIgnored(present) == FALSE

\* copyFileSync throws (ENOENT) when the source file does not exist
CopyFileSyncThrows(present) == ~present

PlatformNotConsulted(platform, a) == Truthy(a)

\* if (!config.platform && process.argv[2])
NeedsResolve(platform, a) == ~Truthy(platform) /\ Truthy(a)

SwitchCaseSetupAsImage(a) ==
    CASE a = "--prebuild" -> "image"
      [] a = "--setup" -> "image"
      [] a = "--docker" -> "containerized"
      [] OTHER -> "local"

\* switch (arg)
SwitchCase(a) ==
    CASE a = "--prebuild" -> "image"
      [] a = "--setup" -> "setup"
      [] a = "--docker" -> "containerized"
      [] OTHER -> "local"

UserIdsAlwaysFallback(h, id) == <<1000, 1000>>

\* const uid = ..., const gid = ... of runDockerBuild
UserIds(h, id) ==
    <<IF h = "linux" THEN id.uid ELSE 1000,
      IF h = "linux" THEN id.egid ELSE 1000>>

Entry(op, a, ok) == [op |-> op, a |-> a, ok |-> ok]

NoDockerCmd ==
    [kind |-> "none", platform |-> "", user |-> <<0, 0>>, mount |-> "",
     buildkit |-> ""]
NoFile == [present |-> FALSE, by |-> 0, data |-> ""]
NoDescriptor == [present |-> FALSE, by |-> 0, data |-> <<>>]

----------------------------------------------------------------------------
(* Initial states *)

Args == {Undefined, "", "--prebuild", "--setup", "--docker", "--other"}
EnvPlatforms == {Undefined, "", "linux/arm64"}
Hosts == {"linux", "darwin", "win32"}
IdSets == {[uid |-> 501, gid |-> 20, egid |-> 20],
           [uid |-> 1000, gid |-> 1000, egid |-> 1000],
           [uid |-> 0, gid |-> 0, egid |-> 20]}
DirStates == {d \in [{BuildDir, WasmOut} -> BOOLEAN] : d[WasmOut] => d[BuildDir]}
SrcStates ==
    {[f \in AssetSet |-> IF f \in m THEN NoFile
                         ELSE [present |-> TRUE, by |-> 0, data |-> f]] :
        m \in {x \in SUBSET AssetSet : Cardinality(x) <= MaxMissing}}

InitProc(P, A, E, H, I) ==
    /\ procs = P
    /\ arg \in [P -> A]
    /\ envPlatform \in [P -> E]
    /\ host \in [P -> H]
    /\ ids \in [P -> I]
    /\ config = [p \in P |-> MakeConfig(envPlatform[p])]
    /\ pc = [p \in P |-> "start"]
    /\ exitCode = [p \in P |-> -1]
    /\ childExit = [p \in P |-> -1]
    /\ log = [p \in P |-> <<>>]
    /\ dockerCmd = [p \in P |-> NoDockerCmd]
    /\ clangCmd = [p \in P |-> <<>>]
    /\ copyIdx = [p \in P |-> 1]

InitEnv ==
    /\ dockerUp \in BOOLEAN
    /\ dirs \in DirStates
    /\ srcFiles \in SrcStates
    /\ outFiles = [f \in OutNames |-> NoFile]
    /\ descriptor = NoDescriptor

Init ==
    /\ InitProc({1}, Args, EnvPlatforms, Hosts, IdSets)
    /\ InitEnv
    /\ mkdirFault \in Faults \cup {NoError}

----------------------------------------------------------------------------
(* Steps of one invocation *)

Exit(p, code) ==
    /\ pc' = [pc EXCEPT ![p] = "done"]
    /\ exitCode' = [exitCode EXCEPT ![p] = code]

Goto(p, l) ==
    /\ pc' = [pc EXCEPT ![p] = l]
    /\ UNCHANGED exitCode

Logged(p, e) == log' = [log EXCEPT ![p] = Append(@, e)]

\* module top level: platform resolution
ResolvePlatform(p) ==
    /\ pc[p] = "start"
    /\ IF NeedsResolve(config[p].platform, arg[p])
       THEN /\ Logged(p, Entry("execSync", "docker info", dockerUp))
            /\ IF dockerUp
               THEN /\ config' = [config EXCEPT ![p].platform = Trim(DockerInfoOutput)]
                    /\ childExit' = [childExit EXCEPT ![p] = 0]
                    /\ Goto(p, "switch")
               ELSE /\ childExit' = [childExit EXCEPT ![p] = 1]
                    /\ Exit(p, UncaughtExitCode)
                    /\ UNCHANGED config
       ELSE /\ Goto(p, "switch")
            /\ UNCHANGED <<config, log, childExit>>
    /\ UNCHANGED <<procVars, envVars, dockerCmd, clangCmd, copyIdx, dirs,
                   outFiles, descriptor>>

\* case '--prebuild'
Prebuild(p) ==
    /\ pc[p] = "switch"
    /\ SwitchCase(arg[p]) = "image"
    /\ \E status \in ExitCodes :
        /\ log' = [log EXCEPT ![p] =
                     @ \o <<Entry("console.log", "docker build", TRUE),
                            Entry("execSync", "docker build", status = 0)>>]
        /\ dockerCmd' = [dockerCmd EXCEPT ![p] =
                           [kind |-> "build", platform |-> config[p].platform,
                            user |-> <<0, 0>>, mount |-> "", buildkit |-> ""]]
        /\ childExit' = [childExit EXCEPT ![p] = status]
        /\ Exit(p, IF ExecSyncThrows(status) THEN UncaughtExitCode ELSE 0)
    /\ UNCHANGED <<procVars, envVars, config, clangCmd, copyIdx, dirs,
                   outFiles, descriptor>>

\* case '--setup': existsSync of ensureDirectoryExists, inside the try
SetupExists(p) ==
    /\ pc[p] = "switch"
    /\ SwitchCase(arg[p]) = "setup"
    /\ Logged(p, Entry("existsSync", BuildDir, TRUE))
    /\ IF dirs[BuildDir] THEN Exit(p, 0) ELSE Goto(p, "setup_mkdir")
    /\ UNCHANGED <<procVars, envVars, config, childExit, dockerCmd, clangCmd,
                   copyIdx, dirs, outFiles, descriptor>>

\* case '--setup': mkdirSync of ensureDirectoryExists, and the catch block
SetupMkdir(p) ==
    /\ pc[p] = "setup_mkdir"
    /\ LET error == MkdirSync(dirs[BuildDir], mkdirFault) IN
        /\ Logged(p, Entry("mkdirSync", BuildDir, error = NoError))
        /\ dirs' = IF error = NoError
                   THEN [d \in DOMAIN dirs |-> dirs[d] \/ d \in MkdirCreates(BuildDir)]
                   ELSE dirs
        /\ IF error # NoError /\ SetupRethrows(error)
           THEN Exit(p, UncaughtExitCode)
           ELSE Exit(p, 0)
    /\ UNCHANGED <<procVars, envVars, config, childExit, dockerCmd, clangCmd,
                   copyIdx, outFiles, descriptor>>

\* case '--docker': runDockerBuild, then process.exit(0)
DockerRun(p) ==
    /\ pc[p] = "switch"
    /\ SwitchCase(arg[p]) = "containerized"
    /\ \E status \in ExitCodes :
        /\ Logged(p, Entry("execSync", "docker run", status = 0))
        /\ dockerCmd' = [dockerCmd EXCEPT ![p] =
                           [kind |-> "run", platform |-> config[p].platform,
                            user |-> UserIds(host[p], ids[p]),
                            mount |-> BuildDir, buildkit |-> "1"]]
        /\ childExit' = [childExit EXCEPT ![p] = status]
        /\ Exit(p, IF ExecSyncThrows(status) THEN UncaughtExitCode ELSE 0)
    /\ UNCHANGED <<procVars, envVars, config, clangCmd, copyIdx, dirs,
                   outFiles, descriptor>>

\* default: existsSync of ensureDirectoryExists(config.wasmOut)
LocalExists(p) ==
    /\ pc[p] = "switch"
    /\ SwitchCase(arg[p]) = "local"
    /\ Logged(p, Entry("existsSync", config[p].wasmOut, TRUE))
    /\ Goto(p, IF dirs[config[p].wasmOut] THEN "npm" ELSE "local_mkdir")
    /\ UNCHANGED <<procVars, envVars, config, childExit, dockerCmd, clangCmd,
                   copyIdx, dirs, outFiles, descriptor>>

\* default: mkdirSync of ensureDirectoryExists(config.wasmOut)
LocalMkdir(p) ==
    /\ pc[p] = "local_mkdir"
    /\ LET error == MkdirSync(dirs[config[p].wasmOut], mkdirFault) IN
        /\ Logged(p, Entry("mkdirSync", config[p].wasmOut, error = NoError))
        /\ dirs' = IF error = NoError
                   THEN [d \in DOMAIN dirs |->
                            dirs[d] \/ d \in MkdirCreates(config[p].wasmOut)]
                   ELSE dirs
        /\ IF error = NoError THEN Goto(p, "npm") ELSE Exit(p, UncaughtExitCode)
    /\ UNCHANGED <<procVars, envVars, config, childExit, dockerCmd, clangCmd,
                   copyIdx, outFiles, descriptor>>

\* default: execSync('npm run build', ...)
NpmRunBuild(p) ==
    /\ pc[p] = "npm"
    /\ \E status \in ExitCodes :
        /\ Logged(p, Entry("execSync", "npm run build", status = 0))
        /\ childExit' = [childExit EXCEPT ![p] = status]
        /\ IF ExecSyncThrows(status)
           THEN Exit(p, UncaughtExitCode)
           ELSE Goto(p, "clang")
    /\ UNCHANGED <<procVars, envVars, config, dockerCmd, clangCmd, copyIdx,
                   dirs, outFiles, descriptor>>

\* default: buildWasm(config); a compiler that exits 0 has written its output
BuildWasm(p) ==
    /\ pc[p] = "clang"
    /\ \E status \in ExitCodes :
        /\ Logged(p, Entry("execSync", "clang", status = 0))
        /\ clangCmd' = [clangCmd EXCEPT ![p] = ClangCmd(config[p])]
        /\ childExit' = [childExit EXCEPT ![p] = status]
        /\ outFiles' = IF status = 0
                       THEN [outFiles EXCEPT ![WasmName] =
                               [present |-> TRUE, by |-> p, data |-> "wasm"]]
                       ELSE outFiles
        /\ IF ExecSyncThrows(status)
           THEN Exit(p, UncaughtExitCode)
           ELSE Goto(p, "copy")
    /\ UNCHANGED <<procVars, envVars, config, dockerCmd, copyIdx, dirs,
                   descriptor>>

\* copyAssets: the copyFileSync calls, one at a time
CopyAssets(p) ==
    /\ pc[p] = "copy"
    /\ LET f == AssetNames[copyIdx[p]]
           threw == CopyFileSyncThrows(srcFiles[f].present) IN
        /\ Logged(p, Entry("copyFileSync", f, srcFiles[f].present))
        /\ outFiles' = IF srcFiles[f].present
                       THEN [outFiles EXCEPT ![f] =
                               [present |-> TRUE, by |-> p,
                                data |-> srcFiles[f].data]]
                       ELSE outFiles
        /\ IF threw
           THEN Exit(p, UncaughtExitCode) /\ UNCHANGED copyIdx
           ELSE IF copyIdx[p] = Len(AssetNames)
                THEN Goto(p, "descriptor") /\ UNCHANGED copyIdx
                ELSE /\ copyIdx' = [copyIdx EXCEPT ![p] = @ + 1]
                     /\ UNCHANGED <<pc, exitCode>>
    /\ UNCHANGED <<procVars, envVars, config, childExit, dockerCmd, clangCmd,
                   dirs, descriptor>>

\* copyAssets: writeFileSync of package.json; the script then ends
WriteDescriptor(p) ==
    /\ pc[p] = "descriptor"
    /\ Logged(p, Entry("writeFileSync", "package.json", TRUE))
    /\ descriptor' = [present |-> TRUE, by |-> p, data |-> PackageJson]
    /\ Exit(p, 0)
    /\ UNCHANGED <<procVars, envVars, config, childExit, dockerCmd, clangCmd,
                   copyIdx, dirs, outFiles>>

Next ==
    \E p \in procs :
        \/ ResolvePlatform(p)
        \/ Prebuild(p)
        \/ SetupExists(p)
        \/ SetupMkdir(p)
        \/ DockerRun(p)
        \/ LocalExists(p)
        \/ LocalMkdir(p)
        \/ NpmRunBuild(p)
        \/ BuildWasm(p)
        \/ CopyAssets(p)
        \/ WriteDescriptor(p)

Spec == Init /\ [][Next]_vars

----------------------------------------------------------------------------
(* Two invocations of the local pipeline on the same output directory, on a *)
(* file system where mkdir can succeed                                      *)

RaceProcs == {1, 2}

InitRace ==
    /\ InitProc(RaceProcs, {Undefined, "--other"}, {Undefined}, {"linux"},
                {[uid |-> 501, gid |-> 20, egid |-> 20]})
    /\ InitEnv
    /\ mkdirFault = NoError

NextRace ==
    \E p \in procs :
        \/ ResolvePlatform(p)
        \/ LocalExists(p)
        \/ LocalMkdir(p)
        \/ NpmRunBuild(p)
        \/ BuildWasm(p)
        \/ CopyAssets(p)
        \/ WriteDescriptor(p)

SpecRace == InitRace /\ [][NextRace]_vars

----------------------------------------------------------------------------
(* Vocabulary of the properties *)

\* the path the documentation assigns to an invocation argument
ClaimPath(a) ==
    IF a = "--prebuild" THEN "image"
    ELSE IF a = "--setup" THEN "setup"
    ELSE IF a = "--docker" THEN "containerized"
    ELSE "local"

\* the path an external operation belongs to ("resolve": platform resolution,
\* which belongs to none of the four)
ActPath(e) ==
    CASE e.op = "execSync" /\ e.a = "docker info" -> "resolve"
      [] e.a = "docker build" -> "image"
      [] e.op = "execSync" /\ e.a = "docker run" -> "containerized"
      [] e.op \in {"existsSync", "mkdirSync"} /\ e.a = BuildDir -> "setup"
      [] OTHER -> "local"

PathsOf(p) == {ActPath(log[p][i]) : i \in DOMAIN log[p]} \ {"resolve"}

Done(p) == pc[p] = "done"

LastEntry(p) == log[p][Len(log[p])]

InfoQueried(p) == \E i \in DOMAIN log[p] : ActPath(log[p][i]) = "resolve"

\* the invocation died in platform resolution, before the switch
ResolutionFailed(p) ==
    /\ Done(p)
    /\ log[p] # <<>>
    /\ ActPath(LastEntry(p)) = "resolve"
    /\ ~LastEntry(p).ok

----------------------------------------------------------------------------
\* C1 (as stated): every finished invocation has performed the actions of
\* exactly one of the four paths, the one its argument selects.
C1_ExactlyOnePathAlways ==
    \A p \in procs : Done(p) => PathsOf(p) = {ClaimPath(arg[p])}

\* C1 (amended): an invocation never performs an action of a path other than
\* the one its argument selects, so never of two paths; once it is past the
\* switch, and when it finishes without platform resolution having failed,
\* it has performed actions of exactly that one path.
C1_AtMostOnePath ==
    \A p \in procs :
        /\ PathsOf(p) \subseteq {ClaimPath(arg[p])}
        /\ pc[p] \notin {"start", "switch"} /\ ~ResolutionFailed(p)
             => PathsOf(p) = {ClaimPath(arg[p])}

C1_Witness ==
    \E p \in procs :
        /\ Done(p)
        /\ arg[p] = "--setup"
        /\ InfoQueried(p)
        /\ PathsOf(p) = {"setup"}
        /\ Len(log[p]) = 3

----------------------------------------------------------------------------
\* C2: an invocation with an unrecognized argument behaves as one with no
\* argument: platform resolution is skipped, so its first external operation
\* is the existence test of the output directory and it never ends before it.
C2_UnrecognizedAsAbsent ==
    \A p \in procs :
        arg[p] \notin {"--prebuild", "--setup", "--docker"} =>
            /\ ~InfoQueried(p)
            /\ log[p] # <<>> => log[p][1] = Entry("existsSync", WasmOut, TRUE)
            /\ Done(p) => log[p] # <<>>

\* what C2 compares with: the invocation with no argument does behave so
C2_AbsentBaseline ==
    \A p \in procs :
        arg[p] = Undefined =>
            /\ ~InfoQueried(p)
            /\ log[p] # <<>> => log[p][1] = Entry("existsSync", WasmOut, TRUE)
            /\ Done(p) => log[p] # <<>>

----------------------------------------------------------------------------
\* C3 (as stated): whenever WASM_PLATFORM is set, docker info is never
\* invoked and docker build / docker run get the override as platform.
C3_SetOverrideSkipsInfo ==
    \A p \in procs :
        envPlatform[p] # Undefined =>
            /\ ~InfoQueried(p)
            /\ dockerCmd[p].kind # "none" => dockerCmd[p].platform = envPlatform[p]

\* C3 (amended): whenever WASM_PLATFORM is set to a non-empty value, docker
\* info is never invoked and docker build / docker run get that value.
C3_NonEmptyOverrideSkipsInfo ==
    \A p \in procs :
        Truthy(envPlatform[p]) =>
            /\ ~InfoQueried(p)
            /\ dockerCmd[p].kind # "none" => dockerCmd[p].platform = envPlatform[p]

C3_Witness ==
    \E p \in procs :
        /\ envPlatform[p] = "linux/arm64"
        /\ Done(p)
        /\ dockerCmd[p].kind = "run"
        /\ dockerCmd[p].platform = "linux/arm64"

----------------------------------------------------------------------------
\* the four steps of the local pipeline, numbered
StepNo(e) ==
    CASE e.op \in {"existsSync", "mkdirSync"} -> 1
      [] e.a = "npm run build" -> 2
      [] e.a = "clang" -> 3
      [] OTHER -> 4

IsLocal(e) == ActPath(e) = "local"

LocalLog(p) == SelectSeq(log[p], IsLocal)

\* C4: in local mode the steps ensure-output-directory, npm run build,
\* buildWasm, copyAssets happen in this order, each only after the previous
\* one succeeded; a step that fails is the last thing the invocation does
\* and the invocation ends with a non-zero status.
C4_LocalOrderFailFast ==
    \A p \in procs :
        ClaimPath(arg[p]) = "local" =>
            LET L == LocalLog(p) IN
            /\ \A i, j \in DOMAIN L : i < j => StepNo(L[i]) <= StepNo(L[j])
            /\ \A j \in DOMAIN L :
                 StepNo(L[j]) > 1 =>
                    \E i \in 1..(j - 1) :
                        /\ StepNo(L[i]) = StepNo(L[j]) - 1
                        /\ L[i].ok
            /\ \A i \in DOMAIN log[p] :
                 ~log[p][i].ok =>
                    /\ i = Len(log[p])
                    /\ Done(p)
                    /\ exitCode[p] # 0
            /\ Done(p) /\ exitCode[p] = 0 =>
                 {StepNo(L[i]) : i \in DOMAIN L} = 1..4

C4_Witness ==
    \E p \in procs :
        /\ ClaimPath(arg[p]) = "local"
        /\ Done(p)
        /\ exitCode[p] # 0
        /\ LastEntry(p) = Entry("execSync", "clang", FALSE)
        /\ \E i \in DOMAIN log[p] : log[p][i] = Entry("execSync", "npm run build", TRUE)

----------------------------------------------------------------------------
\* C5: in containerized mode the exit status of the orchestrator equals the
\* exit status of the docker run process.
C5_ExitCodeInherited ==
    \A p \in procs :
        Done(p) /\ dockerCmd[p].kind = "run" => exitCode[p] = childExit[p]

----------------------------------------------------------------------------
\* C6: setup mode exits 0 when the directory exists, was created, or the
\* creation raised 'already exists'; after any other creation failure,
\* whatever was raised, it does not exit 0.
C6_SetupExitStatus ==
    \A p \in procs :
        Done(p) /\ PathsOf(p) = {"setup"} =>
            LET e == LastEntry(p)
                alreadyExists == isErrorWithCode(mkdirFault) /\ mkdirFault.code = "EEXIST"
            IN IF e.ok \/ alreadyExists
               THEN exitCode[p] = 0
               ELSE exitCode[p] # 0

----------------------------------------------------------------------------
PosixHosts == {"linux", "darwin"}

\* C7 (as stated): docker run gets the invoking user's user id and group id
\* (the real or the effective one) on every POSIX host and 1000:1000 on
\* every other host.
C7_UserOnPosix ==
    \A p \in procs :
        dockerCmd[p].kind = "run" =>
            IF host[p] \in PosixHosts
            THEN /\ dockerCmd[p].user[1] = ids[p].uid
                 /\ dockerCmd[p].user[2] \in {ids[p].gid, ids[p].egid}
            ELSE dockerCmd[p].user = <<1000, 1000>>

\* C7 (amended): docker run gets the process's real user id and effective
\* group id on a Linux host, and 1000:1000 on every other host, POSIX or not.
C7_UserOnLinux ==
    \A p \in procs :
        dockerCmd[p].kind = "run" =>
            /\ host[p] = "linux" => dockerCmd[p].user = <<ids[p].uid, ids[p].egid>>
            /\ host[p] # "linux" => dockerCmd[p].user = <<1000, 1000>>

C7_Witness ==
    \E p \in procs :
        /\ dockerCmd[p].kind = "run"
        /\ host[p] = "linux"
        /\ ids[p].uid = 501
        /\ dockerCmd[p].user = <<501, 20>>

----------------------------------------------------------------------------
ValuesOf(cmd, n) ==
    {cmd[i].val : i \in {j \in DOMAIN cmd : cmd[j].name = n /\ cmd[j].has}}

Occurs(cmd, n) == \E i \in DOMAIN cmd : cmd[i].name = n

MemoryFlags ==
    {"-Wl,-z,stack-size=", "-Wl,--initial-memory=", "-Wl,--max-memory=",
     "-Wl,--global-base="}

\* C8: config.emflags carries initial-memory = max-memory = 16 MiB and
\* stack-size = 2 MiB; in the compiler command no memory-layout flag occurs
\* with two different values, max-memory is 16 MiB, global-base is 4 MiB
\* and --stack-first is passed.
C8_MemoryLayoutAgrees ==
    \A p \in procs :
        /\ ValuesOf(config[p].emflags, "-Wl,--initial-memory=") = {16 * 1024 * 1024}
        /\ ValuesOf(config[p].emflags, "-Wl,--max-memory=") = {16 * 1024 * 1024}
        /\ ValuesOf(config[p].emflags, "-Wl,-z,stack-size=") = {2 * 1024 * 1024}
        /\ clangCmd[p] # <<>> =>
            /\ \A n \in MemoryFlags : Cardinality(ValuesOf(clangCmd[p], n)) <= 1
            /\ ValuesOf(clangCmd[p], "-Wl,--max-memory=") = {16 * 1024 * 1024}
            /\ ValuesOf(clangCmd[p], "-Wl,--initial-memory=") = {16 * 1024 * 1024}
            /\ ValuesOf(clangCmd[p], "-Wl,-z,stack-size=") = {2 * 1024 * 1024}
            /\ ValuesOf(clangCmd[p], "-Wl,--global-base=") = {4 * 1024 * 1024}
            /\ Occurs(clangCmd[p], "-Wl,--stack-first")

C8_Witness ==
    \E p \in procs :
        /\ Done(p)
        /\ exitCode[p] = 0
        /\ clangCmd[p] # <<>>
        /\ Cardinality({i \in DOMAIN clangCmd[p] :
                          clangCmd[p][i].name = "-Wl,--max-memory="}) = 2

----------------------------------------------------------------------------
\* the field names of a serialized JSON object
JSONKeys(text) ==
    IF Len(text) < 2 \/ text[1] # "{" \/ text[Len(text)] # "}"
    THEN <<"not an object">>
    ELSE LET n == (Len(text) - 1) \div 4
         IN [i \in 1..n |-> text[4 * i - 2]]

MissingSources == {f \in AssetSet : ~srcFiles[f].present}

Wrote(p, f) ==
    \E i \in DOMAIN log[p] : log[p][i].op = "writeFileSync" /\ log[p][i].a = f

\* C9: a local run that ends with status 0 leaves llhttp.wasm, the six
\* companion files and a package.json whose content is an object with the
\* single field 'type' in the output directory; when a companion source is
\* missing the run ends with an error and has not written package.json.
C9_LocalOutputComplete ==
    \A p \in procs :
        ClaimPath(arg[p]) = "local" /\ Done(p) =>
            /\ exitCode[p] = 0 =>
                /\ dirs[WasmOut]
                /\ \A f \in OutNames : outFiles[f].present
                /\ \A f \in AssetSet : outFiles[f].data = srcFiles[f].data
                /\ descriptor.present
                /\ JSONKeys(descriptor.data) = <<"type">>
            /\ MissingSources # {} =>
                /\ exitCode[p] # 0
                /\ ~Wrote(p, "package.json")

C9_Witness ==
    \E p \in procs :
        /\ ClaimPath(arg[p]) = "local"
        /\ Done(p)
        /\ MissingSources = {"utils.js"}
        /\ LastEntry(p) = Entry("copyFileSync", "utils.js", FALSE)
        /\ outFiles["constants.d.ts"].present
        /\ ~descriptor.present

----------------------------------------------------------------------------
\* the file a successful write operation of the log wrote ("" if none)
Written(e) ==
    IF ~e.ok THEN ""
    ELSE IF e.op \in {"copyFileSync", "writeFileSync"} THEN e.a
    ELSE IF e.a = "clang" THEN WasmName
    ELSE ""

Holder(f) == IF f = "package.json" THEN descriptor.by ELSE outFiles[f].by

RaceDirectoryHarmless ==
    \A p \in procs :
        /\ \A i \in DOMAIN log[p] :
             log[p][i].op \in {"existsSync", "mkdirSync"} => log[p][i].ok
        /\ pc[p] \in {"npm", "clang", "copy", "descriptor"} => dirs[WasmOut]
        /\ Done(p) /\ exitCode[p] = 0 =>
             \A f \in OutNames \cup {"package.json"} : Holder(f) \in procs

\* C10: with two invocations on the same output directory, no existence
\* test or directory creation of either fails, whatever the interleaving,
\* and the directory exists once an invocation is past them; every
\* successful write leaves the file holding the writer's content, so each
\* file ends with the content of whichever invocation wrote it last.
C10_RaceHarmless ==
    [][/\ RaceDirectoryHarmless'
       /\ \A p \in procs :
            Len(log'[p]) > Len(log[p]) /\ Written(log'[p][Len(log'[p])]) # ""
                => LET f == Written(log'[p][Len(log'[p])])
                   IN (IF f = "package.json" THEN descriptor'.by
                       ELSE outFiles'[f].by) = p]_vars

C10_Witness ==
    /\ \A p \in procs :
        /\ Done(p)
        /\ exitCode[p] = 0
        /\ \E i \in DOMAIN log[p] : log[p][i] = Entry("mkdirSync", WasmOut, TRUE)
    /\ Cardinality(procs) = 2
    /\ outFiles[WasmName].by = 1
    /\ descriptor.by = 2

====
